---- MODULE Spec2Model ----
(***************************************************************************)
(* Model of rag.go: RAGPipeline.Query, a permission-aware retrieval        *)
(* filter.  Strings the code inspects (document text, query, the           *)
(* "spicedb_object" reference) are sequences of one-character strings;     *)
(* strings the code only copies (document id, user id, permission) are     *)
(* atoms.                                                                  *)
(***************************************************************************)
EXTENDS Integers, Sequences, FiniteSets, TLC

\* Longest document collection handed to NewRAGPipeline.
MaxDocs == 2

\* Number of relationship updates the authorization service may receive.
MaxWrites == 1

\* Callers that may run Query on the one pipeline instance.
Callers == {"c1", "c2"}

Users == {"emilia", "charlie"}

Queries == { <<"B">>, <<"a", "b">>, <<"A", "B">> }

Nil == "nil"

\* A Go nil slice of Document: length 0.
NilDocs == << >>

MetadataKey == "spicedb_object"

----------------------------------------------------------------------------
(* Documents (type Document) and the collections given to the pipeline.    *)

Doc1 == [ID |-> "doc1", Text |-> <<"A", "b">>,
         Metadata |-> [spicedb_object |-> <<"d", ":", "1">>]]
Doc2 == [ID |-> "doc2", Text |-> <<"b", "a">>,
         Metadata |-> [spicedb_object |-> <<"d", ":", "2">>]]
Doc3 == [ID |-> "doc3", Text |-> <<"a", "B">>,
         Metadata |-> [source |-> <<"w">>]]
Doc4 == [ID |-> "doc4", Text |-> <<"b">>,
         Metadata |-> [spicedb_object |-> << >>]]
Doc5 == [ID |-> "doc5", Text |-> <<"A", "B">>,
         Metadata |-> [spicedb_object |-> <<"d", "1">>]]
Doc6 == [ID |-> "doc6", Text |-> <<"a", "b", "a">>,
         Metadata |-> [spicedb_object |-> <<"d", ":", "1", ":", "2">>]]

DocPool == {Doc1, Doc2, Doc3, Doc4, Doc5, Doc6}

IsInjective(s) == \A a, b \in 1..Len(s) : s[a] = s[b] => a = b

\* Collections of distinct documents, at most MaxDocs long.
Collections ==
    UNION { {s \in [1..n -> DocPool] : IsInjective(s)} : n \in 0..MaxDocs }

\* Collections used when several callers share the pipeline.
SharedCollections == { <<Doc1, Doc3, Doc2>> }

\* (resourceType, permission) pairs given to NewRAGPipeline.
Configs == { [resourceType |-> <<"d">>, permission |-> "read"],
             [resourceType |-> <<"f">>, permission |-> "viewer"] }

----------------------------------------------------------------------------
(* The authorization service: relationships and permission evaluation.     *)

Rel(t, id, relation, u) ==
    [resType |-> t, resId |-> id, relation |-> relation,
     subjType |-> "user", subjId |-> u]

\* Relationships seeded before the pipeline is used.
SeedTuples ==
    { Rel(<<"d">>, <<"1">>, "owner", "emilia"),
      Rel(<<"d">>, <<"2">>, "viewer", "emilia"),
      Rel(<<"d">>, <<"2">>, "viewer", "charlie") }

\* Relationship updates that may arrive while the pipeline is in use.
Updates ==
    { [op |-> "TOUCH",  rel |-> Rel(<<"d">>, <<"1", ":", "2">>, "viewer", "charlie")],
      [op |-> "DELETE", rel |-> Rel(<<"d">>, <<"2">>, "viewer", "emilia")] }

\* definition document { relation owner; relation viewer;
\*                       permission read = owner + viewer }
RelationsOf(perm) ==
    IF perm = "read" THEN {"owner", "viewer"}
    ELSE IF perm \in {"owner", "viewer"} THEN {perm}
    ELSE {}

CheckPermission(rs, req) ==
    IF \E t \in rs :
          /\ t.resType = req.Resource.ObjectType
          /\ t.resId = req.Resource.ObjectId
          /\ t.relation \in RelationsOf(req.Permission)
          /\ t.subjType = req.Subject.ObjectType
          /\ t.subjId = req.Subject.ObjectId
    THEN "HAS_PERMISSION"
    ELSE "NO_PERMISSION"

----------------------------------------------------------------------------
(* String functions used by Query.                                         *)

\* strings.ToLower on one character.
LowerChar(c) ==
    CASE c = "A" -> "a"
      [] c = "B" -> "b"
      [] OTHER -> c

\* Variant: the string is left as it is.
ToLowerIdentity(s) == s

ToLower(s) == [k \in 1..Len(s) |-> LowerChar(s[k])]

\* strings.Contains(s, substr)
Contains(s, substr) ==
    \E k \in 1..(Len(s) - Len(substr) + 1) :
        \A m \in 1..Len(substr) : s[k + m - 1] = substr[m]

\* strings.Index(s, sep) for a one-character sep; 0 when absent.
Index(s, sep) ==
    IF \E k \in 1..Len(s) : s[k] = sep
    THEN CHOOSE k \in 1..Len(s) :
            /\ s[k] = sep
            /\ \A m \in 1..(k - 1) : s[m] # sep
    ELSE 0

\* Variant: strings.Split, which cuts at every sep.
RECURSIVE SplitAll(_, _)
SplitAll(s, sep) ==
    IF Index(s, sep) = 0
    THEN << s >>
    ELSE << SubSeq(s, 1, Index(s, sep) - 1) >>
         \o SplitAll(SubSeq(s, Index(s, sep) + 1, Len(s)), sep)

\* strings.SplitN(s, sep, 2): cut at the first sep, or the whole string.
SplitN(s, sep) ==
    IF Index(s, sep) = 0
    THEN << s >>
    ELSE << SubSeq(s, 1, Index(s, sep) - 1),
            SubSeq(s, Index(s, sep) + 1, Len(s)) >>

\* d.Metadata[key]: the zero value "" when the key is absent.
MetaGet(m, key) == IF key \in DOMAIN m THEN m[key] ELSE << >>

\* The retrieval predicate of the first loop.
Matches(d, lq) == Contains(ToLower(d.Text), lq)

\* resp.Permissionship == PERMISSIONSHIP_HAS_PERMISSION
\* Variant: every answer that is not an error admits the document.
IsPermittedAnyAnswer(r) == r \in {"HAS_PERMISSION", "NO_PERMISSION"}

IsPermitted(r) == r = "HAS_PERMISSION"

\* Variant: the partial list is returned together with the error.
OnCheckErrorPartial(allowedSoFar, e) == [docs |-> allowedSoFar, err |-> e]

\* The value returned when a check fails: return nil, err.
OnCheckError(allowedSoFar, e) == [docs |-> NilDocs, err |-> e]

----------------------------------------------------------------------------
VARIABLES
    docs,          \* r.docs
    resourceType,  \* r.resourceType
    permission,    \* r.permission
    callers,       \* the callers that use this pipeline
    rels,          \* relationships held by the authorization service
    writes,        \* number of relationship updates applied so far
    pc,            \* per caller: position inside Query
    userID,        \* per caller: argument userID
    query,         \* per caller: argument query
    ctx,           \* per caller: state of the argument ctx
    i,             \* per caller: index of the retrieval loop
    candidates,    \* per caller: local candidates
    j,             \* per caller: index of the filtering loop
    allowed,       \* per caller: local allowed
    ret,           \* per caller: value returned by the last Query
    inflight,      \* CheckPermission calls sent and not yet answered
    checkLog,      \* per caller: checks issued by the current Query
    stable         \* per caller: no relationship changed since Query was called

vars == << docs, resourceType, permission, callers, rels, writes, pc, userID,
           query, ctx, i, candidates, j, allowed, ret, inflight, checkLog,
           stable >>

config == << docs, resourceType, permission, callers >>

NoRet == [docs |-> NilDocs, err |-> Nil]

\* Variant: the request names the configured resourceType.
CheckPermissionRequestConfigured(parts, perm, user) ==
    [Resource   |-> [ObjectType |-> resourceType, ObjectId |-> parts[2]],
     Permission |-> perm,
     Subject    |-> [ObjectType |-> "user", ObjectId |-> user]]

\* The request built for one candidate.
CheckPermissionRequest(parts, perm, user) ==
    [Resource   |-> [ObjectType |-> parts[1], ObjectId |-> parts[2]],
     Permission |-> perm,
     Subject    |-> [ObjectType |-> "user", ObjectId |-> user]]

\* Variant: allowed outlives the call and keeps the previous result.
StaleAllowed(p) == ret[p].docs

\* var allowed []Document
FreshAllowed(p) == << >>

InitCommon ==
    /\ rels = SeedTuples
    /\ writes = 0
    /\ pc = [p \in Callers |-> "idle"]
    /\ userID = [p \in Callers |-> "emilia"]
    /\ query = [p \in Callers |-> << >>]
    /\ ctx = [p \in Callers |-> "active"]
    /\ i = [p \in Callers |-> 1]
    /\ candidates = [p \in Callers |-> << >>]
    /\ j = [p \in Callers |-> 1]
    /\ allowed = [p \in Callers |-> << >>]
    /\ ret = [p \in Callers |-> NoRet]
    /\ inflight = {}
    /\ checkLog = [p \in Callers |-> << >>]
    /\ stable = [p \in Callers |-> TRUE]

\* NewRAGPipeline: either one caller with any collection, or all callers
\* sharing one pipeline.
Init ==
    /\ InitCommon
    /\ \/ /\ callers = {"c1"}
          /\ docs \in Collections
          /\ \E c \in Configs :
                /\ resourceType = c.resourceType
                /\ permission = c.permission
       \/ /\ callers = Callers
          /\ docs \in SharedCollections
          /\ resourceType = <<"d">>
          /\ permission = "read"

----------------------------------------------------------------------------
(* Query, one step at a time.                                              *)

\* Entry of Query: lines 40-41 and the head of the retrieval loop.
Query(p, u, q) ==
    /\ p \in callers
    /\ pc[p] \in {"idle", "done"}
    /\ userID' = [userID EXCEPT ![p] = u]
    /\ query' = [query EXCEPT ![p] = q]
    /\ ctx' = [ctx EXCEPT ![p] = "active"]
    /\ i' = [i EXCEPT ![p] = 1]
    /\ candidates' = [candidates EXCEPT ![p] = << >>]
    /\ j' = [j EXCEPT ![p] = 1]
    /\ allowed' = [allowed EXCEPT ![p] = FreshAllowed(p)]
    /\ ret' = [ret EXCEPT ![p] = NoRet]
    /\ checkLog' = [checkLog EXCEPT ![p] = << >>]
    /\ stable' = [stable EXCEPT ![p] = TRUE]
    /\ pc' = [pc EXCEPT ![p] = IF Len(docs) = 0 THEN "filter" ELSE "retrieve"]
    /\ UNCHANGED << config, rels, writes, inflight >>

\* Variant: candidates is one list shared by every caller.
RetrieveStepShared(p) ==
    /\ pc[p] = "retrieve"
    /\ i[p] <= Len(docs)
    /\ candidates' = [c \in Callers |->
          IF Matches(docs[i[p]], ToLower(query[p]))
          THEN Append(candidates[c], docs[i[p]])
          ELSE candidates[c]]
    /\ i' = [i EXCEPT ![p] = @ + 1]
    /\ pc' = [pc EXCEPT ![p] = IF i[p] = Len(docs) THEN "filter" ELSE "retrieve"]
    /\ UNCHANGED << config, rels, writes, userID, query, ctx, j, allowed, ret,
                    inflight, checkLog, stable >>

\* One iteration of the retrieval loop.
RetrieveStep(p) ==
    /\ pc[p] = "retrieve"
    /\ i[p] <= Len(docs)
    /\ candidates' = [candidates EXCEPT ![p] =
          IF Matches(docs[i[p]], ToLower(query[p]))
          THEN Append(@, docs[i[p]])
          ELSE @]
    /\ i' = [i EXCEPT ![p] = @ + 1]
    /\ pc' = [pc EXCEPT ![p] = IF i[p] = Len(docs) THEN "filter" ELSE "retrieve"]
    /\ UNCHANGED << config, rels, writes, userID, query, ctx, j, allowed, ret,
                    inflight, checkLog, stable >>

\* Variant: a candidate without a usable reference is let through.
SkipCandidateFailOpen(p) ==
    /\ j' = [j EXCEPT ![p] = @ + 1]
    /\ allowed' = [allowed EXCEPT ![p] = Append(@, candidates[p][j[p]])]
    /\ UNCHANGED << pc, inflight, checkLog >>

\* "continue": the candidate is dropped and the loop moves on.
SkipCandidate(p) ==
    /\ j' = [j EXCEPT ![p] = @ + 1]
    /\ UNCHANGED << pc, allowed, inflight, checkLog >>

\* Variant: the call is sent and the loop goes on without its answer.
IssueCheckNoWait(p, parts) ==
    LET req == CheckPermissionRequest(parts, permission, userID[p]) IN
    /\ inflight' = inflight \cup
          { [caller |-> p, cand |-> j[p], req |-> req] }
    /\ checkLog' = [checkLog EXCEPT ![p] =
          Append(@, [cand |-> j[p], doc |-> candidates[p][j[p]].ID,
                     req |-> req, ctxAtIssue |-> ctx[p],
                     resp |-> "pending"])]
    /\ j' = [j EXCEPT ![p] = @ + 1]
    /\ UNCHANGED << pc, allowed >>

\* The CheckPermission call is sent; Query waits for its answer.
IssueCheck(p, parts) ==
    LET req == CheckPermissionRequest(parts, permission, userID[p]) IN
    /\ inflight' = inflight \cup
          { [caller |-> p, cand |-> j[p], req |-> req] }
    /\ checkLog' = [checkLog EXCEPT ![p] =
          Append(@, [cand |-> j[p], doc |-> candidates[p][j[p]].ID,
                     req |-> req, ctxAtIssue |-> ctx[p],
                     resp |-> "pending"])]
    /\ pc' = [pc EXCEPT ![p] = "check"]
    /\ UNCHANGED << j, allowed >>

\* One iteration of the filtering loop up to the CheckPermission call.
FilterStep(p) ==
    /\ pc[p] = "filter"
    /\ j[p] <= Len(candidates[p])
    /\ LET spiceObj == MetaGet(candidates[p][j[p]].Metadata, MetadataKey)
           parts == SplitN(spiceObj, ":")
       IN  IF spiceObj = << >>
           THEN SkipCandidate(p)
           ELSE IF Len(parts) # 2
                THEN SkipCandidate(p)
                ELSE IssueCheck(p, parts)
    /\ UNCHANGED << config, rels, writes, userID, query, ctx, i, candidates,
                    ret, stable >>

\* The arguments and locals of Query go out of scope when it returns.
ReleaseLocals(p) ==
    /\ ctx' = [ctx EXCEPT ![p] = "active"]
    /\ i' = [i EXCEPT ![p] = 1]
    /\ candidates' = [candidates EXCEPT ![p] = << >>]
    /\ j' = [j EXCEPT ![p] = 1]
    /\ allowed' = [allowed EXCEPT ![p] = << >>]

\* Variant: the call is made with a context that is never cancelled.
OutcomesBackground(m, p) == {CheckPermission(rels, m.req), "Unavailable"}

\* What a CheckPermission call may return: the service's answer, a
\* transport failure, or the cancellation of ctx.
Outcomes(m, p) ==
    IF ctx[p] = "canceled"
    THEN IF \E e \in 1..Len(checkLog[p]) :
               /\ checkLog[p][e].cand = m.cand
               /\ checkLog[p][e].ctxAtIssue = "canceled"
         THEN {"Canceled"}
         ELSE {"Canceled", CheckPermission(rels, m.req)}
    ELSE {CheckPermission(rels, m.req), "Unavailable"}

SetResp(log, r) == [log EXCEPT ![Len(log)].resp = r]

\* The CheckPermission call returns: lines 82-88.
CheckPermissionReturn(p) ==
    /\ pc[p] = "check"
    /\ \E m \in inflight :
        /\ m.caller = p
        /\ inflight' = inflight \ {m}
        /\ \E r \in Outcomes(m, p) :
            /\ checkLog' = [checkLog EXCEPT ![p] = SetResp(@, r)]
            /\ IF r \notin {"HAS_PERMISSION", "NO_PERMISSION"}
               THEN /\ ret' = [ret EXCEPT ![p] = OnCheckError(allowed[p], r)]
                    /\ pc' = [pc EXCEPT ![p] = "done"]
                    /\ ReleaseLocals(p)
               ELSE /\ allowed' = [allowed EXCEPT ![p] =
                          IF IsPermitted(r)
                          THEN Append(@, candidates[p][m.cand])
                          ELSE @]
                    /\ j' = [j EXCEPT ![p] = @ + 1]
                    /\ pc' = [pc EXCEPT ![p] = "filter"]
                    /\ UNCHANGED << ret, ctx, i, candidates >>
    /\ UNCHANGED << config, rels, writes, userID, query, stable >>

\* return allowed, nil
Return(p) ==
    /\ pc[p] = "filter"
    /\ j[p] > Len(candidates[p])
    /\ ret' = [ret EXCEPT ![p] = [docs |-> allowed[p], err |-> Nil]]
    /\ pc' = [pc EXCEPT ![p] = "done"]
    /\ ReleaseLocals(p)
    /\ UNCHANGED << config, rels, writes, userID, query, inflight, checkLog,
                    stable >>

\* The loops of Query are not finished yet.
InLoops(p) ==
    \/ pc[p] \in {"retrieve", "check"}
    \/ pc[p] = "filter" /\ j[p] <= Len(candidates[p])

\* The caller cancels ctx while the loops of Query are running.
Cancel(p) ==
    /\ InLoops(p)
    /\ ctx[p] = "active"
    /\ ctx' = [ctx EXCEPT ![p] = "canceled"]
    /\ UNCHANGED << config, rels, writes, pc, userID, query, i, candidates, j,
                    allowed, ret, inflight, checkLog, stable >>

\* The authorization service applies one relationship update.
WriteRelationships(u) ==
    /\ writes < MaxWrites
    /\ rels' = IF u.op = "DELETE" THEN rels \ {u.rel} ELSE rels \cup {u.rel}
    /\ rels' # rels
    /\ writes' = writes + 1
    /\ stable' = [p \in Callers |-> FALSE]
    /\ UNCHANGED << config, pc, userID, query, ctx, i, candidates, j, allowed,
                    ret, inflight, checkLog >>

Next ==
    \/ \E p \in Callers, u \in Users, q \in Queries : Query(p, u, q)
    \/ \E p \in Callers : RetrieveStep(p)
    \/ \E p \in Callers : FilterStep(p)
    \/ \E p \in Callers : CheckPermissionReturn(p)
    \/ \E p \in Callers : Return(p)
    \/ \E p \in Callers : Cancel(p)
    \/ \E u \in Updates : WriteRelationships(u)

Spec == Init /\ [][Next]_vars

----------------------------------------------------------------------------
(* Query as one sequential function of its arguments and of the answers    *)
(* its checks receive, in the order they are received.                     *)

\* The retrieval loop.
Retrieve(ds, q) == SelectSeq(ds, LAMBDA d : Matches(d, ToLower(q)))

\* The filtering loop from candidate k on; used counts the answers consumed.
RECURSIVE FilterFrom(_, _, _, _, _)
FilterFrom(cands, k, answers, used, acc) ==
    IF k > Len(cands)
    THEN [docs |-> acc, err |-> Nil, used |-> used]
    ELSE LET spiceObj == MetaGet(cands[k].Metadata, MetadataKey)
             parts == SplitN(spiceObj, ":")
         IN  IF spiceObj = << >> \/ Len(parts) # 2
             THEN FilterFrom(cands, k + 1, answers, used, acc)
             ELSE IF used >= Len(answers)
                  THEN [docs |-> acc, err |-> "waiting", used |-> used]
                  ELSE LET r == answers[used + 1] IN
                       IF r \notin {"HAS_PERMISSION", "NO_PERMISSION"}
                       THEN [docs |-> NilDocs, err |-> r, used |-> used + 1]
                       ELSE FilterFrom(cands, k + 1, answers, used + 1,
                                       IF IsPermitted(r)
                                       THEN Append(acc, cands[k])
                                       ELSE acc)

QueryAlone(ds, q, answers) ==
    FilterFrom(Retrieve(ds, q), 1, answers, 0, << >>)

----------------------------------------------------------------------------
(* Vocabulary of the properties, stated without the functions above.       *)

Done(p) == pc[p] = "done"

Succeeded(p) == Done(p) /\ ret[p].err = Nil

Answers == {"HAS_PERMISSION", "NO_PERMISSION"}

SameLetter(a, b) ==
    \/ a = b
    \/ {a, b} = {"a", "A"}
    \/ {a, b} = {"b", "B"}

\* q occurs in text as a contiguous substring, letter case ignored.
OccursIgnoringCase(text, q) ==
    \E k \in 1..(Len(text) - Len(q) + 1) :
        \A m \in 1..Len(q) : SameLetter(text[k + m - 1], q[m])

SameIgnoringCase(q1, q2) ==
    /\ Len(q1) = Len(q2)
    /\ \A m \in 1..Len(q1) : SameLetter(q1[m], q2[m])

\* The authorization reference of a document; empty when the key is missing.
RefOf(d) ==
    IF MetadataKey \in DOMAIN d.Metadata THEN d.Metadata[MetadataKey] ELSE << >>

Colons(s) == {k \in 1..Len(s) : s[k] = ":"}

HasIdentity(d) == Colons(RefOf(d)) # {}

\* The (type, id) a reference denotes: the text before and after its first colon.
IdentityOf(d) ==
    LET k == CHOOSE c \in Colons(RefOf(d)) : \A o \in Colons(RefOf(d)) : c <= o
    IN  [ObjectType |-> SubSeq(RefOf(d), 1, k - 1),
         ObjectId   |-> SubSeq(RefOf(d), k + 1, Len(RefOf(d)))]

DocWithID(id) == CHOOSE d \in {docs[k] : k \in 1..Len(docs)} : d.ID = id

Last(log) == log[Len(log)]

Responses(log) == [e \in 1..Len(log) |-> log[e].resp]

LogDocs(log) == [e \in 1..Len(log) |-> log[e].doc]

IDs(ds) == [k \in 1..Len(ds) |-> ds[k].ID]

\* The service answered r to the check Query(p) made for document d.
Answered(p, d, r) ==
    \E e \in 1..Len(checkLog[p]) :
        /\ checkLog[p][e].doc = d.ID
        /\ checkLog[p][e].req.Subject = [ObjectType |-> "user", ObjectId |-> userID[p]]
        /\ checkLog[p][e].resp = r

InSeq(x, sq) == \E k \in 1..Len(sq) : sq[k] = x

TypeOK ==
    /\ pc \in [Callers -> {"idle", "retrieve", "filter", "check", "done"}]
    /\ writes \in 0..MaxWrites

----------------------------------------------------------------------------
\* C1: a Query that ends without a check error returns, in collection order,
\* exactly the documents that match the query ignoring case, carry a
\* reference with an identity, and for which the service answered
\* HAS_PERMISSION for user:principal; a document answered NO_PERMISSION is
\* not in the result.
C1_ResultIsPermittedMatches ==
    \A p \in Callers :
        Succeeded(p) =>
            /\ ret[p].docs =
                 SelectSeq(docs, LAMBDA d :
                     /\ OccursIgnoringCase(d.Text, query[p])
                     /\ HasIdentity(d)
                     /\ Answered(p, d, "HAS_PERMISSION"))
            /\ \A d \in DocPool :
                 Answered(p, d, "NO_PERMISSION") => ~InSeq(d, ret[p].docs)

C1_Witness ==
    \E p \in Callers :
        /\ Succeeded(p)
        /\ Len(ret[p].docs) >= 1
        /\ \E d \in DocPool : Answered(p, d, "NO_PERMISSION")

\* C2 (as stated): a document whose reference is missing, empty, or not
\* exactly two colon-separated parts is never in a result.
C2_Original ==
    \A p \in Callers :
        \A k \in 1..Len(ret[p].docs) :
            Cardinality(Colons(RefOf(ret[p].docs[k]))) = 1

\* C2 (amended): a document whose reference is missing, empty, or without any
\* colon is never checked, never appended to allowed and never in a result.
C2_NoIdentityNeverReturned ==
    \A p \in Callers :
        /\ \A k \in 1..Len(ret[p].docs) : HasIdentity(ret[p].docs[k])
        /\ \A k \in 1..Len(allowed[p]) : HasIdentity(allowed[p][k])
        /\ \A e \in 1..Len(checkLog[p]) : HasIdentity(DocWithID(checkLog[p][e].doc))

C2_Witness ==
    \E p \in Callers :
        /\ Succeeded(p)
        /\ Len(ret[p].docs) >= 1
        /\ \E k \in 1..Len(docs) :
              /\ OccursIgnoringCase(docs[k].Text, query[p])
              /\ ~HasIdentity(docs[k])

\* C3: when a check fails, Query returns that error with a nil result, and no
\* check is issued after the failed one.
C3_FailFast ==
    \A p \in Callers :
        /\ \A e \in 1..(Len(checkLog[p]) - 1) : checkLog[p][e].resp \in Answers
        /\ (Len(checkLog[p]) > 0 /\ Last(checkLog[p]).resp \notin Answers \cup {"pending"})
              => /\ Done(p)
                 /\ ret[p] = [docs |-> NilDocs, err |-> Last(checkLog[p]).resp]
                 /\ \A m \in inflight : m.caller # p
        /\ (Done(p) /\ ret[p].err # Nil)
              => /\ ret[p].docs = NilDocs
                 /\ Len(checkLog[p]) > 0
                 /\ Last(checkLog[p]).resp = ret[p].err

C3_Witness ==
    \E p \in Callers :
        /\ Done(p)
        /\ ret[p].err = "Unavailable"
        /\ Len(checkLog[p]) = 2
        /\ checkLog[p][1].resp = "HAS_PERMISSION"

\* C4 (as stated): a Query that ends without a check error has issued exactly
\* one check per document that matched the query text.
C4_Original ==
    \A p \in Callers :
        Succeeded(p) =>
            LogDocs(checkLog[p]) =
                IDs(SelectSeq(docs, LAMBDA d : OccursIgnoringCase(d.Text, query[p])))

\* C4 (amended): a Query that ends without a check error has issued exactly
\* one check per matching document whose reference has an identity, in
\* collection order, whatever was queried before; two Queries with the same
\* principal and query issue the same requests.
C4_OneCheckPerIdentifiedCandidate ==
    /\ \A p \in Callers :
          Succeeded(p) =>
              LogDocs(checkLog[p]) =
                  IDs(SelectSeq(docs, LAMBDA d :
                        OccursIgnoringCase(d.Text, query[p]) /\ HasIdentity(d)))
    /\ \A p, q \in Callers :
          (Succeeded(p) /\ Succeeded(q)
             /\ userID[p] = userID[q] /\ query[p] = query[q])
          => [e \in 1..Len(checkLog[p]) |-> checkLog[p][e].req]
               = [e \in 1..Len(checkLog[q]) |-> checkLog[q][e].req]

C4_Witness ==
    \E p \in Callers :
        /\ Succeeded(p)
        /\ Len(checkLog[p]) = 1
        /\ Len(SelectSeq(docs, LAMBDA d : OccursIgnoringCase(d.Text, query[p]))) = 2

\* C5: under every interleaving, a finished Query has returned what the
\* sequential Query returns on the answers it received, and no step changes
\* the document collection, the permission or the resourceType.
C5_ReturnsAsIfAlone ==
    \A p \in Callers :
        Done(p) =>
            QueryAlone(docs, query[p], Responses(checkLog[p]))
              = [docs |-> ret[p].docs, err |-> ret[p].err,
                 used |-> Len(checkLog[p])]

C5_Independent ==
    /\ []C5_ReturnsAsIfAlone
    /\ [][docs' = docs /\ permission' = permission
            /\ resourceType' = resourceType]_vars

C5_Witness ==
    /\ Cardinality(inflight) = 2
    /\ \A p \in Callers : pc[p] = "check" /\ Len(allowed[p]) = 1

\* C6 (as stated): a Query whose context was cancelled before its loops
\* finished never returns a successful result.
C6_Original ==
    [][\A p \in Callers :
          (ctx[p] = "canceled" /\ ~Done(p) /\ pc'[p] = "done")
            => ret'[p].err # Nil]_vars

\* C6 (amended): a check issued after the cancellation fails with the
\* cancellation error, and the Query then returns that error with a nil
\* result; a cancelled Query that returns a successful result issued no
\* check after the cancellation.
C6_CancelSeenByChecks ==
    \A p \in Callers :
        /\ \A e \in 1..Len(checkLog[p]) :
              checkLog[p][e].ctxAtIssue = "canceled"
                => /\ e = Len(checkLog[p])
                   /\ checkLog[p][e].resp \in {"pending", "Canceled"}
        /\ (Done(p) /\ Len(checkLog[p]) > 0
              /\ Last(checkLog[p]).ctxAtIssue = "canceled")
              => ret[p] = [docs |-> NilDocs, err |-> "Canceled"]

C6_Witness ==
    \E p \in Callers :
        /\ Done(p)
        /\ ret[p].err = "Canceled"
        /\ Len(checkLog[p]) = 2
        /\ checkLog[p][1].resp = "HAS_PERMISSION"
        /\ checkLog[p][2].ctxAtIssue = "canceled"

\* C7: after the retrieval loop the candidates are, in collection order, the
\* documents whose text contains the query ignoring case; queries that differ
\* only in letter case give the same candidates.
C7_CaseInsensitiveRetrieval ==
    /\ \A p \in Callers :
          pc[p] \in {"filter", "check"} =>
              candidates[p] =
                  SelectSeq(docs, LAMBDA d : OccursIgnoringCase(d.Text, query[p]))
    /\ \A p, q \in Callers :
          (pc[p] \in {"filter", "check"} /\ pc[q] \in {"filter", "check"}
             /\ SameIgnoringCase(query[p], query[q]))
          => candidates[p] = candidates[q]
    /\ (\A p \in Callers : pc[p] = "idle") =>
          \A q1, q2 \in Queries :
              SameIgnoringCase(q1, q2) => Retrieve(docs, q1) = Retrieve(docs, q2)

C7_Witness ==
    \E p, q \in Callers :
        /\ pc[p] = "filter" /\ pc[q] = "filter"
        /\ query[p] = <<"A", "B">> /\ query[q] = <<"a", "b">>
        /\ Len(candidates[p]) = 2 /\ Len(candidates[q]) = 2

\* C8: two Queries with the same principal and query, both run with no
\* change of the authorization state since either was called, return the
\* same result.
C8_Idempotent ==
    \A p, q \in Callers :
        (/\ Succeeded(p) /\ Succeeded(q)
         /\ userID[p] = userID[q] /\ query[p] = query[q]
         /\ stable[p] /\ stable[q])
        => ret[p].docs = ret[q].docs

C8_Witness ==
    \E p, q \in Callers :
        /\ p # q
        /\ Succeeded(p) /\ Succeeded(q)
        /\ userID[p] = userID[q] /\ query[p] = query[q]
        /\ stable[p] /\ stable[q]
        /\ writes = 1
        /\ Len(ret[p].docs) = 2

\* C9: every request carries the configured permission, the subject
\* user:principal, and the resource (type, id) found before and after the
\* first colon of the candidate's reference, whatever resourceType is.
RequestWellFormed(p, doc, req) ==
    /\ req.Permission = permission
    /\ req.Subject = [ObjectType |-> "user", ObjectId |-> userID[p]]
    /\ HasIdentity(DocWithID(doc))
    /\ req.Resource = IdentityOf(DocWithID(doc))

C9_RequestShape ==
    /\ \A p \in Callers :
          \A e \in 1..Len(checkLog[p]) :
              RequestWellFormed(p, checkLog[p][e].doc, checkLog[p][e].req)
    /\ \A m \in inflight :
          /\ pc[m.caller] = "check"
          /\ m.req = Last(checkLog[m.caller]).req

C9_Witness ==
    \E p \in Callers :
        /\ resourceType = <<"f">>
        /\ Len(checkLog[p]) > 0
        /\ Last(checkLog[p]).req.Resource =
              [ObjectType |-> <<"d">>, ObjectId |-> <<"1", ":", "2">>]
        /\ Last(checkLog[p]).resp = "NO_PERMISSION"

\* C10: a Query has at most one check in flight, issues no check before the
\* retrieval loop has run over the whole collection, and issues a check only
\* after every earlier check of the same Query got a non-error answer, in
\* candidate order.
C10_SequentialChecks ==
    \A p \in Callers :
        /\ Cardinality({m \in inflight : m.caller = p}) <= 1
        /\ (\E m \in inflight : m.caller = p)
              <=> (Len(checkLog[p]) > 0 /\ Last(checkLog[p]).resp = "pending")
        /\ pc[p] = "retrieve" => Len(checkLog[p]) = 0
        /\ \A e \in 1..(Len(checkLog[p]) - 1) :
              /\ checkLog[p][e].resp \in Answers
              /\ checkLog[p][e].cand < checkLog[p][e + 1].cand

C10_Witness ==
    \E p \in Callers :
        /\ pc[p] = "check"
        /\ Len(checkLog[p]) = 2
        /\ checkLog[p][1].resp = "NO_PERMISSION"
        /\ \E m \in inflight : m.caller = p /\ m.cand = 2

====
